---- MODULE Spec2Model ----
(***************************************************************************)
(* A model of the go-opap client (package opap): Client.NewRequest,        *)
(* Client.Do, checkResponse, Client.get and the six drawsService           *)
(* operations.                                                             *)
(*                                                                         *)
(* Text is modelled as a sequence of one-character strings, so that        *)
(* formatting (fmt.Sprintf), URL parsing and URL resolution are computed   *)
(* and not assumed.  A response body is modelled as a sequence of JSON     *)
(* lexemes (punctuation, string literals, number literals, null) and of    *)
(* non-JSON text lexemes; encoding/json is modelled by a scanner and an    *)
(* unmarshaller over those lexemes.                                        *)
(***************************************************************************)
EXTENDS Integers, Sequences, FiniteSets, TLC

(***************************************************************************)
(* Bounds of the model.                                                    *)
(***************************************************************************)
\* the largest number of draws the mock service puts into a draws.draw array
MaxDraws == 2
\* the largest number of lexemes a body stream delivers before it breaks
MaxBreak == 1
\* the longest urlStr handed to NewRequest directly
MaxPathLen == 3
\* the number of goroutines that call the operations of one Client
NumThreads == 2

\* error values: one record shape for every error, kind "none" for a nil error
Err(kind, cause, method, url, code, text) ==
    [kind |-> kind, cause |-> cause, method |-> method, url |-> url, code |-> code,
     text |-> text]
NoErr == Err("none", "", "", <<>>, 0, <<>>)

\* a nil *http.Request and a nil *http.Response
NilReq == [nil |-> TRUE, method |-> "", url |-> <<>>, body |-> <<>>]
NilResp == [nil |-> TRUE, StatusCode |-> 0, Body |-> <<>>, brk |-> 0 - 1,
            delivery |-> "", Request |-> NilReq]

\* F applied to the value of x, with x evaluated once
With(x, F(_)) == CHOOSE y \in {F(v) : v \in {x}} : TRUE

(***************************************************************************)
(* Text helpers.                                                           *)
(***************************************************************************)
RECURSIVE Concat(_)
Concat(ss) == IF ss = <<>> THEN <<>> ELSE Head(ss) \o Concat(Tail(ss))

Digit(d) == <<"0", "1", "2", "3", "4", "5", "6", "7", "8", "9">>[d + 1]

RECURSIVE Digits(_)
Digits(n) == IF n < 10 THEN <<Digit(n)>> ELSE Digits(n \div 10) \o <<Digit(n % 10)>>

\* the verb %02d: decimal, padded with a zero to two digits
FmtDPadded(n) ==
    IF n < 0 THEN <<"-">> \o Digits(0 - n)
    ELSE IF n < 10 THEN <<"0">> \o Digits(n)
    ELSE Digits(n)

\* the verb %d of fmt.Sprintf: plain decimal, a minus sign, no padding
FmtD(n) == IF n < 0 THEN <<"-">> \o Digits(0 - n) ELSE Digits(n)

HexDigits == {"0", "1", "2", "3", "4", "5", "6", "7", "8", "9",
              "a", "b", "c", "d", "e", "f", "A", "B", "C", "D", "E", "F"}

\* strings.HasPrefix(s, "/")
StartsWithSlash(s) == Len(s) > 0 /\ s[1] = "/"

\* strings.LastIndex(s, "/"), 1-based; 0 when there is none
LastSlash(s) ==
    LET idx == {i \in 1..Len(s) : s[i] = "/"}
    IN IF idx = {} THEN 0 ELSE CHOOSE i \in idx : \A j \in idx : j <= i

(***************************************************************************)
(* Program constants.                                                      *)
(***************************************************************************)
\* "http://applications.opap.gr/" split into scheme and host, and path
defaultBaseURL ==
    [host |-> <<"h","t","t","p",":","/","/","a","p","p","l","i","c","a","t","i","o","n","s",
                ".","o","p","a","p",".","g","r">>,
     path |-> <<"/">>]

defaultDrawsEndpoint ==
    <<"D","r","a","w","s","R","e","s","t","S","e","r","v","i","c","e","s">>

Kino == <<"k","i","n","o">>
Joker == <<"j","o","k","e","r">>
PropoSat == <<"p","r","o","p","o","s","a","t">>
\* Game and PropoGame are string types: any text converts to them
BadGame == <<"%","f","o","o">>

\* the URL of the httptest server the tests point the client at
serverURL ==
    [host |-> <<"h","t","t","p",":","/","/","1","2","7",".","0",".","0",".","1">>,
     path |-> <<>>]

(***************************************************************************)
(* net/url as NewRequest uses it, over the characters the model's paths    *)
(* are made of: letters, digits, "/", ".", "-" and "%".                    *)
(***************************************************************************)
\* url.Parse fails on a "%" that does not start a two-digit hex escape
validEscapes(s) ==
    \A i \in 1..Len(s) :
        s[i] = "%" => (i + 2 <= Len(s) /\ s[i + 1] \in HexDigits /\ s[i + 2] \in HexDigits)

urlParse(urlStr) ==
    IF validEscapes(urlStr) THEN [err |-> NoErr, path |-> urlStr]
    ELSE [err |-> Err("parse", "invalid URL escape", "", <<>>, 0, urlStr), path |-> <<>>]

\* strings.Split(s, "/")
RECURSIVE SplitSlash(_)
SplitSlash(s) ==
    LET idx == {i \in 1..Len(s) : s[i] = "/"}
    IN IF idx = {} THEN <<s>>
       ELSE LET i == CHOOSE k \in idx : \A j \in idx : k <= j
            IN <<SubSeq(s, 1, i - 1)>> \o SplitSlash(SubSeq(s, i + 1, Len(s)))

\* the loop of resolvePath that removes "." and ".." segments
RECURSIVE DotSegments(_, _)
DotSegments(src, dst) ==
    IF src = <<>> THEN dst
    ELSE LET elem == Head(src)
         IN IF elem = <<".">> THEN DotSegments(Tail(src), dst)
            ELSE IF elem = <<".", ".">>
                 THEN DotSegments(Tail(src),
                                  IF dst = <<>> THEN dst ELSE SubSeq(dst, 1, Len(dst) - 1))
                 ELSE DotSegments(Tail(src), Append(dst, elem))

RECURSIVE JoinSlash(_)
JoinSlash(segs) ==
    IF segs = <<>> THEN <<>>
    ELSE IF Len(segs) = 1 THEN Head(segs)
    ELSE Head(segs) \o <<"/">> \o JoinSlash(Tail(segs))

\* a resolvePath that takes every reference for an absolute path
resolvePathFromRoot(base, ref) ==
    IF StartsWithSlash(ref) THEN ref ELSE <<"/">> \o ref

\* net/url resolvePath(base, ref)
resolvePath(base, ref) ==
    LET full == IF ref = <<>> THEN base
                ELSE IF ~StartsWithSlash(ref) THEN SubSeq(base, 1, LastSlash(base)) \o ref
                ELSE ref
        src == SplitSlash(full)
        dst0 == DotSegments(src, <<>>)
        last == src[Len(src)]
        dst == IF last = <<".">> \/ last = <<".", ".">> THEN Append(dst0, <<>>) ELSE dst0
        joined == JoinSlash(dst)
    IN IF full = <<>> THEN <<>>
       ELSE <<"/">> \o (IF StartsWithSlash(joined) THEN Tail(joined) ELSE joined)

\* (*URL).ResolveReference for a reference that has neither scheme nor host
ResolveReference(base, rel) ==
    IF rel = <<>> THEN base
    ELSE [host |-> base.host, path |-> resolvePath(base.path, rel)]

\* (*URL).String
URLString(u) == u.host \o u.path

ValidMethods == {"GET", "HEAD", "POST", "PUT", "DELETE"}

\* Client.NewRequest(method, urlStr, body)
\* http.NewRequest takes the method "" for "GET" before it validates it
NewRequest(base, method, urlStr, body) ==
    LET rel == urlParse(urlStr)
        u == ResolveReference(base, rel.path)
        m == IF method = "" THEN "GET" ELSE method
    IN IF rel.err # NoErr THEN [req |-> NilReq, err |-> rel.err]
       ELSE IF m \notin ValidMethods
            THEN [req |-> NilReq,
                  err |-> Err("request", "invalid method", m, <<>>, 0, <<>>)]
            ELSE [req |-> [nil |-> FALSE, method |-> m, url |-> URLString(u),
                           body |-> body],
                  err |-> NoErr]

(***************************************************************************)
(* encoding/json over lexemes.  A body is a sequence of lexemes: the six   *)
(* punctuation marks, "null", string literals (ToString of their text, so  *)
(* with their quotes), number literals (ToString of their value), and any  *)
(* other text, which is not JSON.                                          *)
(***************************************************************************)
Texts == {"", "draw", "draws", "drawTime", "drawNo", "results", "bar",
          "24-12-2017T22:00:00", "1", "X", "2"}
Numbers == {0, 1, 8, 13, 40, 1873}

IsStrLit(tok) == \E t \in Texts : ToString(t) = tok
IsNumLit(tok) == \E n \in Numbers : ToString(n) = tok
StrVal(tok) == CHOOSE t \in Texts : ToString(t) = tok
NumVal(tok) == CHOOSE n \in Numbers : ToString(n) = tok

\* a JSON value: t is "null", "num", "str", "arr" or "obj"
JV(t, n, str, e, m) == [t |-> t, n |-> n, s |-> str, e |-> e, m |-> m]
JNull == JV("null", 0, "", <<>>, <<>>)

Scanned(st, val, next) == [st |-> st, val |-> val, next |-> next]

\* the scanner: the value that starts at lexeme i.  st is "ok" (next is the
\* lexeme after the value), "syntax" (next is the offending lexeme) or "eof"
\* (the input ended inside or before the value).
RECURSIVE ScanValue(_, _)
RECURSIVE ScanMembers(_, _, _)
RECURSIVE ScanElements(_, _, _)
ScanValue(toks, i) ==
    IF i > Len(toks) THEN Scanned("eof", JNull, i)
    ELSE IF toks[i] = "{"
         THEN IF i + 1 > Len(toks) THEN Scanned("eof", JNull, i + 1)
              ELSE IF toks[i + 1] = "}"
                   THEN Scanned("ok", JV("obj", 0, "", <<>>, <<>>), i + 2)
                   ELSE ScanMembers(toks, i + 1, <<>>)
    ELSE IF toks[i] = "["
         THEN IF i + 1 > Len(toks) THEN Scanned("eof", JNull, i + 1)
              ELSE IF toks[i + 1] = "]"
                   THEN Scanned("ok", JV("arr", 0, "", <<>>, <<>>), i + 2)
                   ELSE ScanElements(toks, i + 1, <<>>)
    ELSE IF toks[i] = "null" THEN Scanned("ok", JNull, i + 1)
    ELSE IF IsStrLit(toks[i])
         THEN Scanned("ok", JV("str", 0, StrVal(toks[i]), <<>>, <<>>), i + 1)
    ELSE IF IsNumLit(toks[i])
         THEN Scanned("ok", JV("num", NumVal(toks[i]), "", <<>>, <<>>), i + 1)
    ELSE Scanned("syntax", JNull, i)

ScanMembers(toks, i, acc) ==
    IF i > Len(toks) THEN Scanned("eof", JNull, i)
    ELSE IF ~IsStrLit(toks[i]) THEN Scanned("syntax", JNull, i)
    ELSE IF i + 1 > Len(toks) THEN Scanned("eof", JNull, i + 1)
    ELSE IF toks[i + 1] # ":" THEN Scanned("syntax", JNull, i + 1)
    ELSE With(ScanValue(toks, i + 2),
              LAMBDA r :
                IF r.st # "ok" THEN r
                ELSE IF r.next > Len(toks) THEN Scanned("eof", JNull, r.next)
                ELSE IF toks[r.next] = ","
                     THEN ScanMembers(toks, r.next + 1,
                                      Append(acc, [k |-> StrVal(toks[i]), v |-> r.val]))
                ELSE IF toks[r.next] = "}"
                     THEN Scanned("ok",
                                  JV("obj", 0, "", <<>>,
                                     Append(acc, [k |-> StrVal(toks[i]), v |-> r.val])),
                                  r.next + 1)
                ELSE Scanned("syntax", JNull, r.next))

ScanElements(toks, i, acc) ==
    With(ScanValue(toks, i),
         LAMBDA r :
           IF r.st # "ok" THEN r
           ELSE IF r.next > Len(toks) THEN Scanned("eof", JNull, r.next)
           ELSE IF toks[r.next] = "," THEN ScanElements(toks, r.next + 1, Append(acc, r.val))
           ELSE IF toks[r.next] = "]"
                THEN Scanned("ok", JV("arr", 0, "", Append(acc, r.val), <<>>), r.next + 1)
           ELSE Scanned("syntax", JNull, r.next))

(***************************************************************************)
(* The Go values the bodies are decoded into.  A slice is nil or holds     *)
(* elements; an empty non-nil slice is [nil |-> FALSE, elems |-> <<>>].    *)
(***************************************************************************)
NilSlice == [nil |-> TRUE, elems |-> <<>>]
MakeSlice(elems) == [nil |-> FALSE, elems |-> elems]

\* Draw{} and PropoDraw{}: the zero value of both record types
ZeroDraw == [DrawTime |-> "", DrawNo |-> 0, Results |-> NilSlice]

\* new(draws), new(propoDraws)
NewDraws == [Draw |-> ZeroDraw]
\* new(drawsByDate), new(propoDrawsByDate)
NewDrawsByDate == [Draws |-> [Draw |-> NilSlice]]

\* the decode targets: the four envelope types, and a nil interface value
NilTarget == "nil"
SingleTargets == {"draws", "propoDraws"}
MultiTargets == {"drawsByDate", "propoDrawsByDate"}
\* the element type of Results: []int in Draw, []string in PropoDraw
ResultsOf(target) == IF target \in {"draws", "drawsByDate"} THEN "int" ELSE "string"
NewTarget(target) == IF target \in SingleTargets THEN NewDraws ELSE NewDrawsByDate

\* the outcome of decoding one value: the Go value, and whether an
\* UnmarshalTypeError was saved (decoding goes on after the first one)
Decoded(val, bad) == [val |-> val, bad |-> bad]

\* a JSON value into a string field: null leaves the field as it is
DecodeString(jv, cur) ==
    IF jv.t = "str" THEN Decoded(jv.s, FALSE)
    ELSE IF jv.t = "null" THEN Decoded(cur, FALSE)
    ELSE Decoded(cur, TRUE)

\* a JSON value into an int field
DecodeInt(jv, cur) ==
    IF jv.t = "num" THEN Decoded(jv.n, FALSE)
    ELSE IF jv.t = "null" THEN Decoded(cur, FALSE)
    ELSE Decoded(cur, TRUE)

RECURSIVE DecodeDraw(_, _, _)
RECURSIVE DrawFields(_, _, _, _)
RECURSIVE DecodeElems(_, _, _)
RECURSIVE DecodeSlice(_, _, _)

\* a slice decoder that allocates nothing for an empty array
DecodeSliceKeepsNil(jv, cur, et) ==
    IF jv.t = "arr"
    THEN LET r == DecodeElems(jv.e, et, Decoded(<<>>, FALSE))
         IN Decoded(IF jv.e = <<>> THEN cur ELSE MakeSlice(r.val), r.bad)
    ELSE IF jv.t = "null" THEN Decoded(NilSlice, FALSE)
    ELSE Decoded(cur, TRUE)

\* a JSON value into a slice whose elements are of type et ("int", "string",
\* "Draw" or "PropoDraw"): an array makes a new non-nil slice, also when it
\* is empty; null makes the slice nil
DecodeSlice(jv, cur, et) ==
    IF jv.t = "arr"
    THEN LET r == DecodeElems(jv.e, et, Decoded(<<>>, FALSE))
         IN Decoded(MakeSlice(r.val), r.bad)
    ELSE IF jv.t = "null" THEN Decoded(NilSlice, FALSE)
    ELSE Decoded(cur, TRUE)

\* an element decoder that puts each element in front of the ones before it
DecodeElemsReversed(es, et, acc) ==
    IF es = <<>> THEN acc
    ELSE LET r == IF et = "int" THEN DecodeInt(Head(es), 0)
                  ELSE IF et = "string" THEN DecodeString(Head(es), "")
                  ELSE DecodeDraw(Head(es), ZeroDraw, IF et = "Draw" THEN "int" ELSE "string")
         IN DecodeElems(Tail(es), et, Decoded(<<r.val>> \o acc.val, acc.bad \/ r.bad))

\* the elements of an array, in their order
DecodeElems(es, et, acc) ==
    IF es = <<>> THEN acc
    ELSE LET r == IF et = "int" THEN DecodeInt(Head(es), 0)
                  ELSE IF et = "string" THEN DecodeString(Head(es), "")
                  ELSE DecodeDraw(Head(es), ZeroDraw, IF et = "Draw" THEN "int" ELSE "string")
         IN DecodeElems(Tail(es), et, Decoded(Append(acc.val, r.val), acc.bad \/ r.bad))

\* a JSON value into a Draw (rt = "int") or a PropoDraw (rt = "string")
DecodeDraw(jv, cur, rt) ==
    IF jv.t = "obj" THEN DrawFields(jv.m, cur, FALSE, rt)
    ELSE IF jv.t = "null" THEN Decoded(cur, FALSE)
    ELSE Decoded(cur, TRUE)

\* the members of an object into the fields tagged drawTime, drawNo and
\* results, in the order of the members; other members are skipped
DrawFields(ms, cur, bad, rt) ==
    IF ms = <<>> THEN Decoded(cur, bad)
    ELSE LET m == Head(ms)
         IN IF m.k = "drawTime"
            THEN LET r == DecodeString(m.v, cur.DrawTime)
                 IN DrawFields(Tail(ms), [cur EXCEPT !.DrawTime = r.val], bad \/ r.bad, rt)
            ELSE IF m.k = "drawNo"
            THEN LET r == DecodeInt(m.v, cur.DrawNo)
                 IN DrawFields(Tail(ms), [cur EXCEPT !.DrawNo = r.val], bad \/ r.bad, rt)
            ELSE IF m.k = "results"
            THEN LET r == DecodeSlice(m.v, cur.Results, rt)
                 IN DrawFields(Tail(ms), [cur EXCEPT !.Results = r.val], bad \/ r.bad, rt)
            ELSE DrawFields(Tail(ms), cur, bad, rt)

\* the members of an object into the one field tagged `draw` of draws and of
\* propoDraws (a struct), or of the inner struct of drawsByDate and of
\* propoDrawsByDate (a slice of et)
RECURSIVE DrawMember(_, _, _, _)
DrawMember(ms, cur, bad, et) ==
    IF ms = <<>> THEN Decoded(cur, bad)
    ELSE LET m == Head(ms)
         IN IF m.k = "draw"
            THEN LET r == IF et \in {"int", "string"} THEN DecodeDraw(m.v, cur.Draw, et)
                          ELSE DecodeSlice(m.v, cur.Draw, et)
                 IN DrawMember(Tail(ms), [cur EXCEPT !.Draw = r.val], bad \/ r.bad, et)
            ELSE DrawMember(Tail(ms), cur, bad, et)

\* a JSON value into a struct whose one field is tagged `draw`
DecodeDrawStruct(jv, cur, et) ==
    IF jv.t = "obj" THEN DrawMember(jv.m, cur, FALSE, et)
    ELSE IF jv.t = "null" THEN Decoded(cur, FALSE)
    ELSE Decoded(cur, TRUE)

\* the members of an object into the field tagged `draws` of drawsByDate
RECURSIVE DrawsMember(_, _, _, _)
DrawsMember(ms, cur, bad, et) ==
    IF ms = <<>> THEN Decoded(cur, bad)
    ELSE LET m == Head(ms)
         IN IF m.k = "draws"
            THEN LET r == DecodeDrawStruct(m.v, cur.Draws, et)
                 IN DrawsMember(Tail(ms), [cur EXCEPT !.Draws = r.val], bad \/ r.bad, et)
            ELSE DrawsMember(Tail(ms), cur, bad, et)

\* json.Unmarshal of a scanned value into *draws, *propoDraws, *drawsByDate
\* or *propoDrawsByDate
Unmarshal(jv, target, cur) ==
    IF target \in SingleTargets THEN DecodeDrawStruct(jv, cur, ResultsOf(target))
    ELSE IF jv.t = "obj"
         THEN DrawsMember(jv.m, cur, FALSE,
                          IF target = "drawsByDate" THEN "Draw" ELSE "PropoDraw")
         ELSE IF jv.t = "null" THEN Decoded(cur, FALSE)
         ELSE Decoded(cur, TRUE)

(***************************************************************************)
(* The body stream of a response.  Body is what the server wrote.  brk < 0 *)
(* is a stream that ends with io.EOF; brk >= 0 is a stream that hands over *)
(* brk lexemes and then fails (a connection reset).  delivery is how the   *)
(* transport answers Read: "bytewise" (never more than asked for so far),  *)
(* "whole" (everything it has in one Read, io.EOF on the next) or          *)
(* "wholeEOF" (everything it has together with io.EOF).                    *)
(***************************************************************************)
Deliveries == {"bytewise", "whole", "wholeEOF"}

Avail(r) == IF r.brk < 0 THEN r.Body ELSE SubSeq(r.Body, 1, r.brk)

\* a single Read in the place of ReadAll: one lexeme at most, no io.EOF
ReadOnce(r) ==
    LET n == IF Len(Avail(r)) = 0 THEN 0 ELSE 1
    IN [data |-> SubSeq(Avail(r), 1, n), failed |-> r.brk = 0, nread |-> n, eof |-> FALSE]

\* ioutil.ReadAll(r.Body): reads until io.EOF or an error
ReadAll(r) ==
    IF r.brk < 0 THEN [data |-> r.Body, failed |-> FALSE, nread |-> Len(r.Body), eof |-> TRUE]
    ELSE [data |-> Avail(r), failed |-> TRUE, nread |-> r.brk, eof |-> FALSE]

\* json.NewDecoder(io.TeeReader(resp.Body, &buf)).Decode(v): scans one value,
\* reading no further than the scanner needs and the transport hands over,
\* then unmarshals it.  cause is "" when err == nil.
Decode(r, target, cur) ==
    With(ScanValue(Avail(r), 1),
         LAMBDA sc :
           LET avail == Avail(r)
               \* the end of an object or array is known at its closing bracket;
               \* the end of any other value only at the byte after it, or at io.EOF
               scalar == sc.st = "ok" /\ sc.val.t \notin {"obj", "arr"}
               need == IF sc.st = "ok" THEN (IF scalar THEN sc.next ELSE sc.next - 1)
                       ELSE IF sc.st = "syntax" THEN sc.next
                       ELSE Len(avail) + 1
               beyond == need > Len(avail)
               broken == r.brk >= 0
               nread == IF beyond \/ r.delivery # "bytewise" THEN Len(avail) ELSE need
               eof == ~broken /\ (beyond \/ r.delivery = "wholeEOF")
           IN With(Unmarshal(sc.val, target, cur),
                   LAMBDA un :
                     LET cause == IF sc.st = "syntax" THEN "syntax"
                                  ELSE IF sc.st = "eof"
                                       THEN (IF broken THEN "read"
                                             ELSE IF avail = <<>> THEN "EOF"
                                             ELSE "unexpected EOF")
                                  ELSE IF scalar /\ beyond /\ broken THEN "read"
                                  ELSE IF un.bad THEN "type" ELSE ""
                     IN [cause |-> cause,
                         v |-> IF cause \in {"", "type"} THEN un.val ELSE cur,
                         nread |-> nread, eof |-> eof, buf |-> SubSeq(avail, 1, nread)]))

(***************************************************************************)
(* Client.Do and checkResponse.                                            *)
(***************************************************************************)
\* a status test that is off by one at its upper end
IsSuccessOffByOne(c) == 200 <= c /\ c <= 300

\* the status test of checkResponse
IsSuccess(c) == 200 <= c /\ c <= 299

\* checkResponse(r): the error, and what it read of the body
checkResponse(r) ==
    IF IsSuccess(r.StatusCode) THEN [err |-> NoErr, nread |-> 0, eof |-> FALSE]
    ELSE LET ra == ReadAll(r)
         IN IF ra.failed
            THEN [err |-> Err("readbody", "reading response body", "", <<>>, 0, <<>>),
                  nread |-> ra.nread, eof |-> ra.eof]
            ELSE [err |-> Err("status", "", r.Request.method, r.Request.url,
                              r.StatusCode, ra.data),
                  nread |-> ra.nread, eof |-> ra.eof]

\* a Do that passes on whatever response came with the transport's error
DoSendFailedKeepsResp(tr) == [resp |-> tr.resp, err |-> tr.err]

\* what Do returns when c.client.Do(req) returned tr with a non-nil error
DoSendFailed(tr) == [resp |-> NilResp, err |-> tr.err]

\* a Close that is deferred only after checkResponse has passed
deferCloseAfterCheck(tr) == tr.err = NoErr /\ IsSuccess(tr.resp.StatusCode)

\* defer resp.Body.Close(): whether the body is closed when Do returns after
\* the transport returned tr
deferClose(tr) == tr.err = NoErr

\* whether Do decodes the body: the test v != nil
WantsDecode(target) == target # NilTarget

\* Client.Do(req, v) from the point where c.client.Do(req) has returned tr:
\* what it returns (resp, err), what it stored through v, and the state it
\* leaves the body stream in
Do(tr, target, cur) ==
    IF tr.err # NoErr
    THEN LET f == DoSendFailed(tr)
         IN [resp |-> f.resp, err |-> f.err, v |-> cur,
             \* a response that comes with an error was closed by net/http
             closed |-> ~tr.resp.nil, nread |-> 0, eof |-> FALSE]
    ELSE With(checkResponse(tr.resp),
              LAMBDA cr :
                IF cr.err # NoErr
                THEN [resp |-> tr.resp, err |-> cr.err, v |-> cur,
                      closed |-> deferClose(tr), nread |-> cr.nread, eof |-> cr.eof]
                ELSE IF WantsDecode(target)
                THEN With(Decode(tr.resp, target, cur),
                          LAMBDA dec :
                            [resp |-> tr.resp,
                             err |-> IF dec.cause = "" THEN NoErr
                                     ELSE Err("decode", dec.cause, "", <<>>, 0, dec.buf),
                             v |-> dec.v, closed |-> deferClose(tr),
                             nread |-> dec.nread, eof |-> dec.eof])
                ELSE [resp |-> tr.resp, err |-> NoErr, v |-> cur,
                      closed |-> deferClose(tr), nread |-> 0, eof |-> FALSE])

(***************************************************************************)
(* The six operations of drawsService: the path each one formats, the      *)
(* envelope it decodes into, and what it returns.                          *)
(***************************************************************************)
Slash == <<"/">>
LastJSON == <<"l", "a", "s", "t", ".", "j", "s", "o", "n">>
DotJSON == <<".", "j", "s", "o", "n">>
DrawDate == <<"d", "r", "a", "w", "D", "a", "t", "e">>

\* fmt.Sprintf("%s/%s/last.json", s.Endpoint, g)
LatestPath(endpoint, g) == Concat(<<endpoint, Slash, g, Slash, LastJSON>>)

\* fmt.Sprintf("%s/%s/%d.json", s.Endpoint, g, number)
ByNumberPath(endpoint, g, number) ==
    Concat(<<endpoint, Slash, g, Slash, FmtD(number), DotJSON>>)

\* fmt.Sprintf("%d-%d-%d", day, month, year), then
\* fmt.Sprintf("%s/%s/drawDate/%s.json", s.Endpoint, g, date)
ByDatePath(endpoint, g, day, month, year) ==
    LET date == Concat(<<FmtD(day), <<"-">>, FmtD(month), <<"-">>, FmtD(year)>>)
    IN Concat(<<endpoint, Slash, g, Slash, DrawDate, Slash, date, DotJSON>>)

SingleOps == {"Latest", "PropoLatest", "ByNumber", "PropoByNumber"}
MultiOps == {"ByDate", "PropoByDate"}
DrawOps == SingleOps \cup MultiOps

\* the envelope each operation allocates: new(draws), new(propoDraws), ...
OpTarget(op) ==
    IF op \in {"Latest", "ByNumber"} THEN "draws"
    ELSE IF op \in {"PropoLatest", "PropoByNumber"} THEN "propoDraws"
    ELSE IF op = "ByDate" THEN "drawsByDate"
    ELSE "propoDrawsByDate"

OpPath(op, endpoint, a) ==
    IF op \in {"Latest", "PropoLatest"} THEN LatestPath(endpoint, a.g)
    ELSE IF op \in {"ByNumber", "PropoByNumber"} THEN ByNumberPath(endpoint, a.g, a.number)
    ELSE ByDatePath(endpoint, a.g, a.day, a.month, a.year)

\* a nil *Draw or *PropoDraw, and a pointer to a draw
NilPtr == [nil |-> TRUE, val |-> ZeroDraw]
PtrTo(d) == [nil |-> FALSE, val |-> d]

\* return statements that drop the response when get failed
OpReturnDropsResp(op, g, d) ==
    IF g.err # NoErr
    THEN [result |-> IF op \in SingleOps THEN NilPtr ELSE NilSlice,
          resp |-> NilResp, err |-> g.err]
    ELSE [result |-> IF op \in SingleOps THEN PtrTo(d.Draw) ELSE d.Draws.Draw,
          resp |-> g.resp, err |-> NoErr]

\* the return statements of the six operations, given what get returned (g)
\* and the envelope get decoded into (d)
OpReturn(op, g, d) ==
    IF g.err # NoErr
    THEN [result |-> IF op \in SingleOps THEN NilPtr ELSE NilSlice,
          resp |-> g.resp, err |-> g.err]
    ELSE [result |-> IF op \in SingleOps THEN PtrTo(d.Draw) ELSE d.Draws.Draw,
          resp |-> g.resp, err |-> NoErr]

\* a get that ignores the error of NewRequest and calls Do all the same
getStartNoCheck(base, url) ==
    [done |-> FALSE, req |-> NewRequest(base, "GET", url, <<>>).req, err |-> NoErr]

\* Client.get up to the call of Do: NewRequest("GET", url, nil), and the
\* early return when it fails
getStart(base, url) ==
    LET nr == NewRequest(base, "GET", url, <<>>)
    IN IF nr.err # NoErr THEN [done |-> TRUE, req |-> NilReq, err |-> nr.err]
       ELSE [done |-> FALSE, req |-> nr.req, err |-> NoErr]

(***************************************************************************)
(* The mock service of the tests: what a handler writes as the body.       *)
(***************************************************************************)
Lit(x) == ToString(x)

RECURSIVE JoinComma(_)
JoinComma(items) ==
    IF items = <<>> THEN <<>>
    ELSE IF Len(items) = 1 THEN Head(items)
    ELSE Head(items) \o <<",">> \o JoinComma(Tail(items))

RECURSIVE Lits(_)
Lits(xs) == IF xs = <<>> THEN <<>> ELSE <<<<Lit(Head(xs))>>>> \o Lits(Tail(xs))

DrawTimeText == "24-12-2017T22:00:00"
DrawNoValue == 1873

\* the results a served draw can carry: integers, or Propo outcomes
ResultChoices(rt) == IF rt = "int" THEN {<<>>, <<40, 13>>} ELSE {<<>>, <<"1", "X">>}

\* a draw as the service holds it: which members it writes, and the results
ServedDraws(rt) ==
    {sd \in [hasTime : BOOLEAN, hasNo : BOOLEAN, hasRes : BOOLEAN, res : ResultChoices(rt)] :
        ~sd.hasRes => sd.res = <<>>}

\* {"drawTime":"...","drawNo":1873,"results":[...]} with the members sd has
EncodeDraw(sd) ==
    <<"{">>
    \o JoinComma((IF sd.hasTime THEN <<<<Lit("drawTime"), ":", Lit(DrawTimeText)>>>> ELSE <<>>)
                 \o (IF sd.hasNo THEN <<<<Lit("drawNo"), ":", Lit(DrawNoValue)>>>> ELSE <<>>)
                 \o (IF sd.hasRes
                     THEN <<<<Lit("results"), ":", "[">> \o JoinComma(Lits(sd.res)) \o <<"]">>>>
                     ELSE <<>>))
    \o <<"}">>

\* a single-draw envelope: {} ("empty"), {"draw":null} ("null") or {"draw":{...}}
SingleEnvelopes(rt) ==
    {[kind |-> "empty", d |-> <<>>], [kind |-> "null", d |-> <<>>]}
    \cup {[kind |-> "draw", d |-> sd] : sd \in ServedDraws(rt)}

EncodeSingle(e) ==
    IF e.kind = "empty" THEN <<"{", "}">>
    ELSE IF e.kind = "null" THEN <<"{", Lit("draw"), ":", "null", "}">>
    ELSE <<"{", Lit("draw"), ":">> \o EncodeDraw(e.d) \o <<"}">>

\* the draws a by-date answer lists
ListedDraws(rt) ==
    {sd \in ServedDraws(rt) : (sd.hasTime /\ sd.hasNo /\ sd.hasRes /\ sd.res # <<>>)
                              \/ (~sd.hasTime /\ sd.hasNo /\ ~sd.hasRes)}

RECURSIVE SeqsUpTo(_, _)
SeqsUpTo(S, n) ==
    IF n = 0 THEN {<<>>}
    ELSE LET shorter == SeqsUpTo(S, n - 1)
         IN shorter \cup {Append(q, x) : q \in {p \in shorter : Len(p) = n - 1}, x \in S}

\* a multi-draw envelope: {} ("empty"), {"draws":{}} ("nodraw"),
\* {"draws":{"draw":null}} ("null") or {"draws":{"draw":[...]}} ("list")
MultiEnvelopes(rt) ==
    {[kind |-> k, ds |-> <<>>] : k \in {"empty", "nodraw", "null"}}
    \cup {[kind |-> "list", ds |-> q] : q \in SeqsUpTo(ListedDraws(rt), MaxDraws)}

RECURSIVE EncodeDraws(_)
EncodeDraws(ds) == IF ds = <<>> THEN <<>> ELSE <<EncodeDraw(Head(ds))>> \o EncodeDraws(Tail(ds))

EncodeMulti(e) ==
    IF e.kind = "empty" THEN <<"{", "}">>
    ELSE IF e.kind = "nodraw" THEN <<"{", Lit("draws"), ":", "{", "}", "}">>
    ELSE IF e.kind = "null"
         THEN <<"{", Lit("draws"), ":", "{", Lit("draw"), ":", "null", "}", "}">>
    ELSE <<"{", Lit("draws"), ":", "{", Lit("draw"), ":", "[">>
         \o JoinComma(EncodeDraws(e.ds)) \o <<"]", "}", "}">>

\* bodies that are no envelope: HTML, nothing, trailing text, two values,
\* values of another shape, a truncated document
OtherBodies ==
    {<<>>,
     <<"<html>", "something broke", "</html>">>,
     <<"{", "}", "<html>">>,
     <<"{", "}", "{", "}">>,
     <<"[", "]">>,
     <<"13">>,
     <<"null">>,
     <<"{", Lit("draw"), ":", "13", "}">>,
     <<"{", Lit("draw"), ":", "{", Lit("drawNo"), ":", Lit("X"), "}", "}">>,
     <<"{", Lit("draw"), ":", "{">>,
     <<"{", Lit("draws"), ":", "{", Lit("draw"), ":", "{", "}", "}", "}">>,
     <<"{", Lit("bar"), ":", Lit("X"), "}">>}

ResultTypes == {"int", "string"}

Bodies ==
    UNION {{EncodeSingle(e) : e \in SingleEnvelopes(rt)} : rt \in ResultTypes}
    \cup UNION {{EncodeMulti(e) : e \in MultiEnvelopes(rt)} : rt \in ResultTypes}
    \cup OtherBodies

Statuses == {199, 200, 204, 299, 300, 404, 500}

\* where a body stream may break: nowhere (-1), or after at most MaxBreak lexemes
BreakPoints(body) == {0 - 1} \cup {k \in 0..MaxBreak : k <= Len(body)}

\* the errors c.client.Do returns; the last one comes with a response
TransportErrs == {"connection refused", "timeout", "redirect refused"}

(***************************************************************************)
(* The state: one client, one caller that makes one call at a time.        *)
(***************************************************************************)
VARIABLES
    BaseURL,    \* Client.BaseURL
    Endpoint,   \* drawsService.Endpoint
    pc,         \* "idle", "inflight" (inside c.client.Do) or "returned"
    call,       \* the operation being called, its arguments, the relative URL
    req,        \* the request handed to the transport
    sends,      \* how often this call has called c.client.Do
    tr,         \* what c.client.Do returned
    stream,     \* the response body: closed, lexemes read, io.EOF seen
    got,        \* what Client.get (or Client.Do, called directly) returned
    ret,        \* what the operation returned
    client,     \* Client.client
    threads,    \* the goroutines that share the Client: the locals of their calls
    cells       \* the envelopes the calls have allocated with new

vars == <<BaseURL, Endpoint, pc, call, req, sends, tr, stream, got, ret, client, threads, cells>>

NoArgs == [g |-> <<>>, number |-> 0, day |-> 0, month |-> 0, year |-> 0,
           method |-> "", body |-> <<>>]
NoTr == [resp |-> NilResp, err |-> NoErr]
NoStream == [closed |-> FALSE, nread |-> 0, eof |-> FALSE]
NoRet == [result |-> NilPtr, resp |-> NilResp, err |-> NoErr]

\* the goroutines, and the locals of one that is not in a call
Threads == 1..NumThreads
NoThread ==
    [pc |-> "idle", op |-> "", a |-> NoArgs, cell |-> <<0, NilTarget>>, req |-> NilReq,
     tr |-> NoTr, got |-> NoTr, ret |-> NoRet]

\* the addresses new can return, one for each goroutine and envelope type,
\* and the memory with every envelope zeroed
CellIds == Threads \X (SingleTargets \cup MultiTargets)
ZeroCells == [c \in CellIds |-> NewTarget(c[2])]

\* what the caller passes in
Games == {Joker, BadGame}
PropoGames == {PropoSat, BadGame}
DrawNumbers == {5, 1873}
Dates == {[day |-> 24, month |-> 12, year |-> 2017], [day |-> 5, month |-> 1, year |-> 2018]}

\* NewClient(nil)
Init ==
    /\ BaseURL = defaultBaseURL
    /\ Endpoint = defaultDrawsEndpoint
    /\ pc = "idle"
    /\ call = [op |-> "", a |-> NoArgs, target |-> NilTarget, u |-> <<>>]
    /\ req = NilReq
    /\ sends = 0
    /\ tr = NoTr
    /\ stream = NoStream
    /\ got = NoTr
    /\ ret = NoRet
    /\ client = "http.DefaultClient"
    /\ threads = [t \in Threads |-> NoThread]
    /\ cells = ZeroCells

\* setup() of the tests: client.BaseURL, _ = url.Parse(server.URL)
Setup ==
    /\ pc = "idle"
    /\ BaseURL = defaultBaseURL
    /\ BaseURL' = serverURL
    /\ UNCHANGED <<client, threads, cells, Endpoint, pc, call, req, sends, tr, stream, got, ret>>

\* an operation of drawsService from its entry to the point where Do hands
\* the request to the transport, or to its return when NewRequest fails
Begin(op, a) ==
    LET u == OpPath(op, Endpoint, a)
        g == getStart(BaseURL, u)
    IN /\ pc = "idle"
       /\ call' = [op |-> op, a |-> a, target |-> OpTarget(op), u |-> u]
       /\ tr' = NoTr
       /\ stream' = NoStream
       /\ req' = g.req
       /\ IF g.done
          THEN /\ pc' = "returned"
               /\ sends' = 0
               /\ got' = [resp |-> NilResp, err |-> g.err]
               /\ ret' = OpReturn(op, got', NewTarget(OpTarget(op)))
          ELSE /\ pc' = "inflight"
               /\ sends' = 1
               /\ got' = NoTr
               /\ ret' = NoRet
       /\ UNCHANGED <<client, threads, cells, BaseURL, Endpoint>>

Latest == \E g \in Games : Begin("Latest", [NoArgs EXCEPT !.g = g])

PropoLatest == \E g \in PropoGames : Begin("PropoLatest", [NoArgs EXCEPT !.g = g])

ByNumber ==
    \E g \in Games, n \in DrawNumbers : Begin("ByNumber", [NoArgs EXCEPT !.g = g, !.number = n])

PropoByNumber ==
    \E g \in PropoGames, n \in DrawNumbers :
        Begin("PropoByNumber", [NoArgs EXCEPT !.g = g, !.number = n])

ByDate ==
    \E g \in Games, d \in Dates :
        Begin("ByDate", [NoArgs EXCEPT !.g = g, !.day = d.day, !.month = d.month,
                                       !.year = d.year])

PropoByDate ==
    \E g \in PropoGames, d \in Dates :
        Begin("PropoByDate", [NoArgs EXCEPT !.g = g, !.day = d.day, !.month = d.month,
                                            !.year = d.year])

\* the tests' direct use: req, _ := client.NewRequest("GET", "/", nil), then
\* client.Do(req, v) with v nil or an envelope
DoDirect ==
    \E target \in {NilTarget, "draws"} :
        /\ pc = "idle"
        /\ call' = [op |-> "Do", a |-> [NoArgs EXCEPT !.method = "GET"], target |-> target,
                    u |-> Slash]
        /\ req' = NewRequest(BaseURL, "GET", Slash, <<>>).req
        /\ pc' = "inflight"
        /\ sends' = 1
        /\ tr' = NoTr
        /\ stream' = NoStream
        /\ got' = NoTr
        /\ ret' = NoRet
        /\ UNCHANGED <<client, threads, cells, BaseURL, Endpoint>>

\* a get that calls Do again when Do failed
getNextRetry(d) == IF d.err # NoErr /\ sends < 2 THEN "inflight" ELSE "returned"

\* Client.get after Do has returned d: get returns what Do returned, there
\* is no loop around Do
getNext(d) == "returned"

\* c.client.Do has returned t: the rest of Do, of get and of the operation
Finish(t) ==
    \E d \in {Do(t, call.target,
                 IF call.target = NilTarget THEN NewDraws ELSE NewTarget(call.target))} :
        /\ tr' = t
        /\ stream' = [closed |-> d.closed, nread |-> d.nread, eof |-> d.eof]
        /\ got' = [resp |-> d.resp, err |-> d.err]
        /\ pc' = getNext(d)
        /\ sends' = IF getNext(d) = "inflight" THEN sends + 1 ELSE sends
        /\ ret' = IF call.op = "Do" THEN [result |-> NilPtr, resp |-> d.resp, err |-> d.err]
                  ELSE OpReturn(call.op, got', d.v)
        /\ UNCHANGED <<client, threads, cells, BaseURL, Endpoint, call, req>>

\* the transport fails: no connection, a timeout, or a refused redirect
\* (the one failure net/http returns a response with, its body closed)
TransportFails ==
    /\ pc = "inflight"
    /\ \E e \in TransportErrs :
          Finish([resp |-> IF e = "redirect refused"
                           THEN [nil |-> FALSE, StatusCode |-> 302, Body |-> <<>>,
                                 brk |-> 0 - 1, delivery |-> "whole", Request |-> req]
                           ELSE NilResp,
                  err |-> Err("transport", e, req.method, req.url, 0, <<>>)])

\* the transport delivers a response
TransportResponds ==
    /\ pc = "inflight"
    /\ \E status \in Statuses, body \in Bodies, dl \in Deliveries :
          \E brk \in BreakPoints(body) :
              Finish([resp |-> [nil |-> FALSE, StatusCode |-> status, Body |-> body,
                                brk |-> brk, delivery |-> dl, Request |-> req],
                      err |-> NoErr])

\* the caller has looked at what the call returned and goes on
Done ==
    /\ pc = "returned"
    /\ pc' = "idle"
    /\ call' = [op |-> "", a |-> NoArgs, target |-> NilTarget, u |-> <<>>]
    /\ req' = NilReq
    /\ sends' = 0
    /\ tr' = NoTr
    /\ stream' = NoStream
    /\ got' = NoTr
    /\ ret' = NoRet
    /\ UNCHANGED <<client, threads, cells, BaseURL, Endpoint>>

Next ==
    \/ Setup
    \/ Latest
    \/ PropoLatest
    \/ ByNumber
    \/ PropoByNumber
    \/ ByDate
    \/ PropoByDate
    \/ DoDirect
    \/ TransportFails
    \/ TransportResponds
    \/ Done

Spec == Init /\ [][Next]_vars

(***************************************************************************)
(* Building requests: a client whose exported fields BaseURL and           *)
(* Draws.Endpoint the caller has set, the six operations up to the request *)
(* they hand to the transport, and NewRequest called directly.             *)
(***************************************************************************)
\* base URLs a caller sets: the default, the test server's (no path), one
\* with a directory and one whose path does not end in a slash
BaseURLs ==
    {defaultBaseURL, serverURL,
     [host |-> serverURL.host, path |-> <<"/", "v", "1", "/">>],
     [host |-> serverURL.host, path |-> <<"/", "v", "1">>]}

\* values of Draws.Endpoint
Endpoints == {defaultDrawsEndpoint, <<"v", "2">>, <<"a", "/", "b">>}

PathChars == {"a", "/", ".", "%"}

RECURSIVE TextsUpTo(_, _)
TextsUpTo(chars, n) ==
    IF n = 0 THEN {<<>>}
    ELSE LET shorter == TextsUpTo(chars, n - 1)
         IN shorter \cup {Append(t, c) : t \in shorter, c \in chars}

\* the urlStr arguments: texts that have no scheme and no host (a text that
\* starts with "//" names a host)
RelPaths ==
    {p \in TextsUpTo(PathChars, MaxPathLen) : ~(Len(p) >= 2 /\ p[1] = "/" /\ p[2] = "/")}

Methods == {"GET", "POST", "", "BAD METHOD"}

\* the body argument: nil, or a reader of some text
ReqBodies == {<<>>, <<"{", "}">>}

InitRequests ==
    /\ BaseURL \in BaseURLs
    /\ Endpoint \in Endpoints
    /\ pc = "idle"
    /\ call = [op |-> "", a |-> NoArgs, target |-> NilTarget, u |-> <<>>]
    /\ req = NilReq
    /\ sends = 0
    /\ tr = NoTr
    /\ stream = NoStream
    /\ got = NoTr
    /\ ret = NoRet
    /\ client = "http.DefaultClient"
    /\ threads = [t \in Threads |-> NoThread]
    /\ cells = ZeroCells

\* the caller calls client.NewRequest(method, urlStr, body)
NewRequestCall ==
    \E method \in Methods, urlStr \in RelPaths, body \in ReqBodies :
        LET nr == NewRequest(BaseURL, method, urlStr, body)
        IN /\ pc = "idle"
           /\ call' = [op |-> "NewRequest",
                       a |-> [NoArgs EXCEPT !.method = method, !.body = body],
                       target |-> NilTarget, u |-> urlStr]
           /\ req' = nr.req
           /\ pc' = "returned"
           /\ sends' = 0
           /\ tr' = NoTr
           /\ stream' = NoStream
           /\ got' = [resp |-> NilResp, err |-> nr.err]
           /\ ret' = [result |-> NilPtr, resp |-> NilResp, err |-> nr.err]
           /\ UNCHANGED <<client, threads, cells, BaseURL, Endpoint>>

NextRequests ==
    \/ Latest
    \/ PropoLatest
    \/ ByNumber
    \/ PropoByNumber
    \/ ByDate
    \/ PropoByDate
    \/ NewRequestCall
    \/ TransportFails
    \/ Done

SpecRequests == InitRequests /\ [][NextRequests]_vars

(***************************************************************************)
(* Several goroutines call the operations of one Client at the same time.  *)
(* A call reads Endpoint and BaseURL, allocates its envelope, hands its    *)
(* request to the transport, decodes the response to that request into the *)
(* envelope, and returns what the envelope holds.  The transport is safe   *)
(* for concurrent use: it answers each request on its own.                 *)
(***************************************************************************)
\* a new that hands every call of one envelope type the same address
newShared(t, target) == <<1, target>>

\* d := new(draws), new(propoDraws), ...: an address that no other call in
\* progress holds
new(t, target) == <<t, target>>

\* the calls the goroutines make
ThreadCalls ==
    {[op |-> "Latest", a |-> [NoArgs EXCEPT !.g = Joker]],
     [op |-> "Latest", a |-> [NoArgs EXCEPT !.g = BadGame]],
     [op |-> "ByDate", a |-> [NoArgs EXCEPT !.g = Joker, !.day = 24, !.month = 12,
                                            !.year = 2017]],
     [op |-> "PropoByNumber", a |-> [NoArgs EXCEPT !.g = PropoSat, !.number = 5]]}

\* what the service answers: two different single draws, a list of one
\* draw, and a failure
ThreadAnswers ==
    {[status |-> 200,
      body |-> EncodeSingle([kind |-> "draw",
                             d |-> [hasTime |-> TRUE, hasNo |-> TRUE, hasRes |-> TRUE,
                                    res |-> <<40, 13>>]])],
     [status |-> 200,
      body |-> EncodeSingle([kind |-> "draw",
                             d |-> [hasTime |-> FALSE, hasNo |-> TRUE, hasRes |-> FALSE,
                                    res |-> <<>>]])],
     [status |-> 200,
      body |-> EncodeMulti([kind |-> "list",
                            ds |-> <<[hasTime |-> TRUE, hasNo |-> TRUE, hasRes |-> TRUE,
                                      res |-> <<40, 13>>]>>])],
     [status |-> 500, body |-> <<"<html>", "something broke", "</html>">>]}

\* what c.client.Do(r) can return for the request r
ThreadResults(r) ==
    {[resp |-> [nil |-> FALSE, StatusCode |-> ans.status, Body |-> ans.body, brk |-> 0 - 1,
                delivery |-> "whole", Request |-> r],
      err |-> NoErr] : ans \in ThreadAnswers}
    \cup {[resp |-> NilResp,
           err |-> Err("transport", "connection refused", r.method, r.url, 0, <<>>)]}

\* goroutine t enters an operation: the envelope is allocated, the path is
\* formatted from Endpoint, get builds the request from BaseURL and either
\* returns its error or hands the request to the transport
CallStart(t) ==
    \E c \in ThreadCalls :
        LET target == OpTarget(c.op)
            d == new(t, target)
            g == getStart(BaseURL, OpPath(c.op, Endpoint, c.a))
            failed == [resp |-> NilResp, err |-> g.err]
        IN /\ threads[t].pc = "idle"
           /\ cells' = [cells EXCEPT ![d] = NewTarget(target)]
           /\ threads' =
                  [threads EXCEPT
                      ![t] = [pc |-> IF g.done THEN "returned" ELSE "inflight",
                              op |-> c.op, a |-> c.a, cell |-> d, req |-> g.req, tr |-> NoTr,
                              got |-> IF g.done THEN failed ELSE NoTr,
                              ret |-> IF g.done
                                      THEN OpReturn(c.op, failed, NewTarget(target))
                                      ELSE NoRet]]
           /\ UNCHANGED <<client, BaseURL, Endpoint, pc, call, req, sends, tr, stream, got, ret>>

\* the transport returns to goroutine t what it has for t's request: the
\* rest of Do, which decodes into the envelope t's pointer refers to
CallReceive(t) ==
    /\ threads[t].pc = "inflight"
    /\ \E r \in ThreadResults(threads[t].req) :
          \E d \in {Do(r, OpTarget(threads[t].op), cells[threads[t].cell])} :
              /\ cells' = [cells EXCEPT ![threads[t].cell] = d.v]
              /\ threads' = [threads EXCEPT ![t].pc = "decoded", ![t].tr = r,
                                            ![t].got = [resp |-> d.resp, err |-> d.err]]
    /\ UNCHANGED <<client, BaseURL, Endpoint, pc, call, req, sends, tr, stream, got, ret>>

\* get has returned to the operation of goroutine t, which returns what its
\* envelope holds
CallReturn(t) ==
    /\ threads[t].pc = "decoded"
    /\ threads' = [threads EXCEPT
                      ![t].pc = "returned",
                      ![t].ret = OpReturn(threads[t].op, threads[t].got,
                                          cells[threads[t].cell])]
    /\ UNCHANGED <<client, cells, BaseURL, Endpoint, pc, call, req, sends, tr, stream, got,
                   ret>>

\* the caller in goroutine t has used the results; nothing refers to the
\* envelope any more
CallDone(t) ==
    /\ threads[t].pc = "returned"
    /\ threads' = [threads EXCEPT ![t] = NoThread]
    /\ cells' = [cells EXCEPT ![threads[t].cell] = NewTarget(threads[t].cell[2])]
    /\ UNCHANGED <<client, BaseURL, Endpoint, pc, call, req, sends, tr, stream, got, ret>>

NextThreads ==
    \/ \E t \in Threads : CallStart(t)
    \/ \E t \in Threads : CallReceive(t)
    \/ \E t \in Threads : CallReturn(t)
    \/ \E t \in Threads : CallDone(t)

SpecThreads == Init /\ [][NextThreads]_vars

(***************************************************************************)
(* Properties.                                                             *)
(***************************************************************************)
\* the call has returned after the transport delivered a response
Received == pc = "returned" /\ tr.err = NoErr /\ ~tr.resp.nil

\* C1: for every response Do receives, Do returns a nil error only if the
\* status code is in 200..299, and for every other status code it returns a
\* non-nil error together with the response that carries that status code.
C1_StatusDecidesError ==
    Received =>
        /\ got.err = NoErr => tr.resp.StatusCode \in 200..299
        /\ tr.resp.StatusCode \notin 200..299 =>
              /\ got.err # NoErr
              /\ ~got.resp.nil
              /\ got.resp.StatusCode = tr.resp.StatusCode

\* a 404 has come back as an error with its response
C1_Witness ==
    /\ Received
    /\ tr.resp.StatusCode = 404
    /\ got.err.kind = "status"
    /\ got.err.code = 404
    /\ got.resp.StatusCode = 404

\* C2: whenever the transport returns an error, Do returns a nil response and
\* the transport's own error, and so do get and the six operations.
C2_TransportErrorNilResponse ==
    (pc = "returned" /\ tr.err # NoErr) =>
        /\ got.resp.nil
        /\ got.err = tr.err
        /\ ret.resp.nil
        /\ ret.err = tr.err

\* the transport has refused a redirect, which comes with a response, inside
\* a draw-lookup operation
C2_Witness ==
    /\ pc = "returned"
    /\ call.op \in DrawOps
    /\ tr.err.kind = "transport"
    /\ ~tr.resp.nil
    /\ ret.resp.nil
    /\ ret.err.cause = "redirect refused"

\* C3: on every exit path of Do on which a response was received, the body
\* has been closed when Do returns.
C3_BodyClosedOnReturn == Received => stream.closed

\* Do has returned through the path on which reading the error body fails
C3_Witness ==
    /\ Received
    /\ got.err.kind = "readbody"
    /\ stream.closed

\* the body has been read to its end: no lexeme of it is left unread
Drained == stream.nread = Len(tr.resp.Body)

\* C4 as stated: on every path of Do on which a response was received, the
\* body has been read to its end before Do returns (here only for the
\* streams that can be read to their end, those that do not break).
C4_DrainedOnEveryPath == (Received /\ tr.resp.brk < 0) => Drained

\* C4, amended: Do reads the body to its end, up to io.EOF, on the non-2xx
\* path, when the stream does not break; with a 2xx status and a nil decode
\* target it reads nothing; with a 2xx status and a decode target it reads
\* at least one lexeme of a body that has one, and what it leaves unread is
\* what follows the first JSON value or the first syntax error.
C4_DrainedWhereRead ==
    Received =>
        /\ (tr.resp.StatusCode \notin 200..299 /\ tr.resp.brk < 0) =>
              Drained /\ stream.eof
        /\ (tr.resp.StatusCode \in 200..299 /\ call.target = NilTarget) =>
              stream.nread = 0 /\ ~stream.eof
        /\ (tr.resp.StatusCode \in 200..299 /\ call.target # NilTarget
               /\ tr.resp.brk # 0 /\ tr.resp.Body # <<>>) =>
              stream.nread >= 1
        /\ (tr.resp.StatusCode \in 200..299 /\ call.target # NilTarget
               /\ tr.resp.brk < 0 /\ ~Drained) =>
              got.err.cause \in {"", "syntax", "type"}

\* a 500 whose body of several lexemes has been read to its end
C4_Witness ==
    /\ Received
    /\ tr.resp.StatusCode = 500
    /\ Len(tr.resp.Body) > 1
    /\ got.err.kind = "status"
    /\ got.err.text = tr.resp.Body
    /\ Drained

\* C5 as stated: every invocation of a draw-lookup operation has sent exactly
\* one request when it returns, whatever the outcome.
C5_ExactlyOneRequest == (pc = "returned" /\ call.op \in DrawOps) => sends = 1

\* C5, amended: an invocation of a draw-lookup operation never hands more
\* than one request to the HTTP client; when it returns it has handed over
\* exactly one if NewRequest succeeded and none if NewRequest failed.
C5_AtMostOneRequest ==
    call.op \in DrawOps =>
        /\ sends <= 1
        /\ pc = "inflight" => sends = 1
        /\ pc = "returned" =>
              sends = (IF validEscapes(OpPath(call.op, Endpoint, call.a)) THEN 1 ELSE 0)

\* an operation has returned the transport's error after one request
C5_Witness ==
    /\ pc = "returned"
    /\ call.op \in DrawOps
    /\ ret.err.kind = "transport"
    /\ sends = 1

\* C6: when NewRequest fails, get, and so each draw-lookup operation, returns
\* a nil response and that error, and the transport is never called.
C6_NoSendOnMalformedURL ==
    LET nr == NewRequest(BaseURL, "GET", OpPath(call.op, Endpoint, call.a), <<>>)
    IN (call.op \in DrawOps /\ nr.err # NoErr) =>
          /\ pc = "returned"
          /\ sends = 0
          /\ req.nil
          /\ tr = NoTr
          /\ got.resp.nil
          /\ got.err = nr.err
          /\ ret.resp.nil
          /\ ret.err = nr.err

\* an operation called with the game "%foo" has returned the parse error
C6_Witness ==
    /\ pc = "returned"
    /\ call.op = "ByDate"
    /\ call.a.g = BadGame
    /\ ret.err.kind = "parse"
    /\ sends = 0

\* C7: whenever get returns a non-nil error, the operation returns a nil
\* result, the response get returned and the same error; a 500 yields a
\* non-nil error and a response whose status code is 500.
C7_ErrorsPropagateUnchanged ==
    (pc = "returned" /\ call.op \in DrawOps) =>
        /\ got.err # NoErr =>
              /\ ret.result.nil
              /\ ret.resp = got.resp
              /\ ret.err = got.err
        /\ (Received /\ tr.resp.StatusCode = 500) =>
              /\ ret.err # NoErr
              /\ ~ret.resp.nil
              /\ ret.resp.StatusCode = 500

\* PropoByDate has returned a 500
C7_Witness ==
    /\ Received
    /\ call.op = "PropoByDate"
    /\ tr.resp.StatusCode = 500
    /\ ret.err.kind = "status"
    /\ ret.resp.StatusCode = 500
    /\ ret.result.nil

\* what the service's draw sd is as a Go value: a member that was not
\* written is the zero value of its field
ExpectedDraw(sd) ==
    [DrawTime |-> IF sd.hasTime THEN DrawTimeText ELSE "",
     DrawNo |-> IF sd.hasNo THEN DrawNoValue ELSE 0,
     Results |-> sd.res]

RECURSIVE ExpectedDraws(_)
ExpectedDraws(ds) ==
    IF ds = <<>> THEN <<>> ELSE <<ExpectedDraw(Head(ds))>> \o ExpectedDraws(Tail(ds))

\* a Draw or PropoDraw with its Results as a plain sequence
Plain(d) == [DrawTime |-> d.DrawTime, DrawNo |-> d.DrawNo, Results |-> d.Results.elems]

RECURSIVE PlainAll(_)
PlainAll(ds) == IF ds = <<>> THEN <<>> ELSE <<Plain(Head(ds))>> \o PlainAll(Tail(ds))

\* the operation has returned after a 2xx response whose stream did not break
Answered(ops) ==
    /\ Received
    /\ call.op \in ops
    /\ tr.resp.StatusCode \in 200..299
    /\ tr.resp.brk < 0

\* C8 as stated: on success ByDate and PropoByDate return a sequence that is
\* never nil.
C8_SequenceNeverNil ==
    (pc = "returned" /\ call.op \in MultiOps /\ ret.err = NoErr) => ~ret.result.nil

\* C8, amended: for a 2xx response whose body is a multi-draw envelope,
\* ByDate and PropoByDate return a nil error and a sequence that is nil when
\* the body is {} or its draws.draw member is missing or null, and non-nil,
\* with one element for each element of draws.draw, when that member is an
\* array, the empty array included.
C8_SequenceNilIffNoArray ==
    \A e \in MultiEnvelopes(ResultsOf(call.target)) :
        (Answered(MultiOps) /\ tr.resp.Body = EncodeMulti(e)) =>
            /\ ret.err = NoErr
            /\ ret.result.nil <=> e.kind # "list"
            /\ Len(ret.result.elems) = Len(e.ds)

\* ByDate has returned a non-nil empty sequence for {"draws":{"draw":[]}}
C8_Witness ==
    /\ Answered({"ByDate"})
    /\ tr.resp.Body = EncodeMulti([kind |-> "list", ds |-> <<>>])
    /\ ret.err = NoErr
    /\ ~ret.result.nil
    /\ ret.result.elems = <<>>

\* C9: unwrapping is faithful on success.  For a 2xx response whose body is a
\* single-draw envelope, Latest, ByNumber, PropoLatest and PropoByNumber
\* return a nil error and a non-nil pointer to a draw whose drawTime, drawNo
\* and results are those of the body's draw member, and the zero-valued draw
\* when the member is missing; ByDate and PropoByDate return the elements of
\* draws.draw, as many and in the same order.
C9_UnwrapFaithful ==
    /\ \A e \in SingleEnvelopes(ResultsOf(call.target)) :
          (Answered(SingleOps) /\ tr.resp.Body = EncodeSingle(e)) =>
              /\ ret.err = NoErr
              /\ ~ret.result.nil
              /\ IF e.kind = "draw" THEN Plain(ret.result.val) = ExpectedDraw(e.d)
                 ELSE ret.result.val = ZeroDraw
    /\ \A e \in MultiEnvelopes(ResultsOf(call.target)) :
          (Answered(MultiOps) /\ tr.resp.Body = EncodeMulti(e)) =>
              /\ ret.err = NoErr
              /\ PlainAll(ret.result.elems) = ExpectedDraws(e.ds)

\* PropoByDate has returned two different draws in the order of the body
C9_Witness ==
    /\ Answered({"PropoByDate"})
    /\ ret.err = NoErr
    /\ Len(ret.result.elems) = 2
    /\ ret.result.elems[1].Results.elems = <<"1", "X">>
    /\ ret.result.elems[2].Results.nil
    /\ ret.result.elems[2].DrawNo = DrawNoValue

\* the body is one JSON value and nothing else
ValidDocument(body) ==
    LET sc == ScanValue(body, 1)
    IN sc.st = "ok" /\ sc.next = Len(body) + 1

\* the body is one JSON value of the shape of the target
MatchesTarget(body, target) ==
    /\ ValidDocument(body)
    /\ ~Unmarshal(ScanValue(body, 1).val, target, NewTarget(target)).bad

\* C10: for every response with a status in 200..299, when a decode target is
\* supplied and the body is not a valid JSON document or does not match the
\* target's shape, Do returns a non-nil decode error together with the
\* response; when the decode target is nil, Do returns a nil error.
C10_DecodeErrorOnBadBody ==
    (Received /\ tr.resp.StatusCode \in 200..299) =>
        /\ (call.target # NilTarget /\ ~MatchesTarget(tr.resp.Body, call.target)) =>
              /\ got.err.kind = "decode"
              /\ ~got.resp.nil
        /\ call.target = NilTarget => got.err = NoErr


\* the decimal value of a text made of digits
DigitChars == {"0", "1", "2", "3", "4", "5", "6", "7", "8", "9"}

DigitValue(c) ==
    CASE c = "0" -> 0 [] c = "1" -> 1 [] c = "2" -> 2 [] c = "3" -> 3 [] c = "4" -> 4
      [] c = "5" -> 5 [] c = "6" -> 6 [] c = "7" -> 7 [] c = "8" -> 8 [] c = "9" -> 9

RECURSIVE DecimalValue(_)
DecimalValue(s) ==
    IF s = <<>> THEN 0
    ELSE 10 * DecimalValue(SubSeq(s, 1, Len(s) - 1)) + DigitValue(s[Len(s)])

\* s is the plain decimal numeral of the natural number n: digits only, no
\* leading zero, value n
PlainDecimal(s, n) ==
    /\ s # <<>>
    /\ \A i \in 1..Len(s) : s[i] \in DigitChars
    /\ (Len(s) > 1 => s[1] # "0")
    /\ DecimalValue(s) = n

\* s is a.b.c with the separator sep, for some texts a, b and c that are the
\* plain decimal numerals of x, y and z
ThreeDecimals(s, sep, x, y, z) ==
    \E i, j \in 1..Len(s) :
        /\ i < j
        /\ s[i] = sep
        /\ s[j] = sep
        /\ PlainDecimal(SubSeq(s, 1, i - 1), x)
        /\ PlainDecimal(SubSeq(s, i + 1, j - 1), y)
        /\ PlainDecimal(SubSeq(s, j + 1, Len(s)), z)

\* text s ends with text e / what is left of s before e
EndsWith(s, e) == Len(s) >= Len(e) /\ SubSeq(s, Len(s) - Len(e) + 1, Len(s)) = e
Before(s, e) == SubSeq(s, 1, Len(s) - Len(e))

\* C11: whenever one of the six draw-lookup operations has been called, the
\* relative path it formed is the current Endpoint, "/", the game identifier
\* as given, "/", and then last.json (Latest, PropoLatest), the number as a
\* plain decimal numeral followed by .json (ByNumber, PropoByNumber), or
\* drawDate/ and day-month-year as plain decimal numerals without padding
\* followed by .json (ByDate, PropoByDate); and the request it built from
\* that path, if it built one, is a GET with no body.
C11_PathFormat ==
    (call.op \in {"Latest", "PropoLatest", "ByNumber", "PropoByNumber", "ByDate",
                  "PropoByDate"}) =>
        LET prefix == Endpoint \o <<"/">> \o call.a.g \o <<"/">>
            rest == SubSeq(call.u, Len(prefix) + 1, Len(call.u))
            json == <<".", "j", "s", "o", "n">>
            dir == <<"d", "r", "a", "w", "D", "a", "t", "e", "/">>
        IN /\ Len(call.u) > Len(prefix)
           /\ SubSeq(call.u, 1, Len(prefix)) = prefix
           /\ EndsWith(rest, json)
           /\ (call.op \in {"Latest", "PropoLatest"} => Before(rest, json) = <<"l", "a", "s", "t">>)
           /\ (call.op \in {"ByNumber", "PropoByNumber"} =>
                  PlainDecimal(Before(rest, json), call.a.number))
           /\ (call.op \in {"ByDate", "PropoByDate"} =>
                  /\ SubSeq(rest, 1, Len(dir)) = dir
                  /\ ThreeDecimals(SubSeq(rest, Len(dir) + 1, Len(rest) - Len(json)), "-",
                                   call.a.day, call.a.month, call.a.year))
           /\ (~req.nil => req.method = "GET" /\ req.body = <<>>)

\* ByDate with day 5 and month 1, on a client whose Endpoint the caller has
\* changed, has handed its request to the transport
C11_Witness ==
    /\ pc = "inflight"
    /\ call.op = "ByDate"
    /\ call.a.day = 5
    /\ call.a.month = 1
    /\ Endpoint # defaultDrawsEndpoint
    /\ ~req.nil
    /\ call.u = Endpoint \o <<"/", "j", "o", "k", "e", "r", "/", "d", "r", "a", "w", "D", "a",
                               "t", "e", "/", "5", "-", "1", "-", "2", "0", "1", "8", ".",
                               "j", "s", "o", "n">>

\* text s has a path segment that is "." or ".."
HasDotSegment(s) ==
    \E i \in 1..Len(s), n \in 1..2 :
        /\ i + n - 1 <= Len(s)
        /\ \A k \in i..(i + n - 1) : s[k] = "."
        /\ (i = 1 \/ s[i - 1] = "/")
        /\ (i + n - 1 = Len(s) \/ s[i + n] = "/")

\* NewRequest, called directly, has returned a request for a urlStr that
\* does not start with a separator
BuiltFromRelative ==
    /\ call.op = "NewRequest"
    /\ pc = "returned"
    /\ ~req.nil
    /\ ~(Len(call.u) > 0 /\ call.u[1] = "/")

Alone(t) ==
    LET th == threads[t]
        target == OpTarget(th.op)
        g == getStart(BaseURL, OpPath(th.op, Endpoint, th.a))
    IN IF g.done THEN OpReturn(th.op, [resp |-> NilResp, err |-> g.err], NewTarget(target))
       ELSE With(Do(th.tr, target, NewTarget(target)),
                 LAMBDA d : OpReturn(th.op, [resp |-> d.resp, err |-> d.err], d.v))

\* C13: with several goroutines calling the operations of one Client in any
\* interleaving, no step of a call changes the client's base URL, transport
\* or endpoint prefix, and every call that has returned returns the result,
\* response and error that follow from its own arguments and the answer to
\* its own request alone, the response being the one to the request this
\* call built.
C13_CallsIsolated ==
    /\ [](\A t \in Threads :
             threads[t].pc = "returned" =>
                 /\ threads[t].ret = Alone(t)
                 /\ (~threads[t].ret.resp.nil =>
                        threads[t].ret.resp.Request = threads[t].req))
    /\ [][BaseURL' = BaseURL /\ Endpoint' = Endpoint /\ client' = client]_vars

\* two calls of Latest overlap: the first has returned the draw of its own
\* answer while the second, answered with a different draw, has decoded it
\* and not yet returned
C13_Witness ==
    /\ threads[1].pc = "returned"
    /\ threads[1].op = "Latest"
    /\ threads[1].ret.err = NoErr
    /\ threads[1].ret.result.val.Results.elems = <<40, 13>>
    /\ threads[2].pc = "decoded"
    /\ threads[2].op = "Latest"
    /\ threads[2].got.err = NoErr
    /\ threads[2].tr.resp.Body # threads[1].tr.resp.Body
    /\ cells[threads[2].cell].Draw.Results.elems = <<>>

====
